---- MODULE Spec2Model ----
(***************************************************************************)
(* Model of kafka_connect_exporter.go: one Exporter (two shared gauges)    *)
(* whose Collect method is invoked by the metrics registry, once per       *)
(* scrape.  Collect is cut into steps at every outbound request, every     *)
(* write of a shared gauge and every channel send, so that overlapping     *)
(* invocations interleave the way goroutines do.                           *)
(*                                                                         *)
(* Program strings are sequences of one-character strings, so that         *)
(* strings.ToLower and fmt.Sprintf("%d") are computed, not assumed.        *)
(* A response body is an abstract JSON value (a tagged record); the        *)
(* decoders below follow encoding/json's rules for the target Go types.    *)
(***************************************************************************)
EXTENDS Integers, Sequences, FiniteSets, TLC

\* ------------------------------------------------------------------ bounds
MaxConnectors == 2
MaxTasks == 2
ChanCap == 1
\* letters of a state word that the upstream may send in upper case
MaxUpper == 2

\* Invocations of Collect that may be in progress (scrape goroutines).
Procs == {1, 2}

\* ------------------------------------------------------------ JSON values
JBad == [t |-> "bad", v |-> <<>>]
JNull == [t |-> "null", v |-> <<>>]
JStr(s) == [t |-> "str", v |-> s]
\* a JSON number n/d
JNum(n, d) == [t |-> "num", v |-> <<n, d>>]
JArr(elems) == [t |-> "arr", v |-> elems]
\* an object is the sequence of its members <<key, value>>, in text order
JObj(members) == [t |-> "obj", v |-> members]

\* the json tags of the three structs
kName == <<"n", "a", "m", "e">>
kConnector == <<"c", "o", "n", "n", "e", "c", "t", "o", "r">>
kTasks == <<"t", "a", "s", "k", "s">>
kState == <<"s", "t", "a", "t", "e">>
kWorkerId == <<"w", "o", "r", "k", "e", "r", "_", "i", "d">>
kId == <<"i", "d">>

\* ------------------------------------------------------- string helpers
\* A character is a one-character string; a character outside ASCII is
\* written by its code point: "U+0130" is the dotted capital I, "U+212A"
\* the Kelvin sign, "U+017F" the long s, "U+00C9" and "U+00E9" the capital
\* and the small e with acute.
UpperAlphabet == <<"A", "B", "C", "D", "E", "F", "G", "H", "I", "J", "K", "L", "M",
                   "N", "O", "P", "Q", "R", "S", "T", "U", "V", "W", "X", "Y", "Z">>
LowerAlphabet == <<"a", "b", "c", "d", "e", "f", "g", "h", "i", "j", "k", "l", "m",
                   "n", "o", "p", "q", "r", "s", "t", "u", "v", "w", "x", "y", "z">>

\* the capitals outside ASCII, with the lower-case letter of each
UpperBeyond == <<"U+0130", "U+212A", "U+00C9">>
LowerBeyond == <<"i", "k", "U+00E9">>

Translate(c, from, to) ==
    IF \E k \in 1..Len(from) : from[k] = c
    THEN to[CHOOSE k \in 1..Len(from) : from[k] = c]
    ELSE c

UpperRunes == UpperAlphabet \o UpperBeyond
LowerRunes == LowerAlphabet \o LowerBeyond

\* unicode.ToLower
LowerChar(c) == Translate(c, UpperRunes, LowerRunes)

\* (variant: the string is passed on as it came)
ToLowerKeep(s) == s

\* strings.ToLower
ToLower(s) == [k \in 1..Len(s) |-> LowerChar(s[k])]

DigitChar(d) == <<"0", "1", "2", "3", "4", "5", "6", "7", "8", "9">>[d + 1]

RECURSIVE Digits(_)
Digits(n) == IF n < 10 THEN <<DigitChar(n)>>
             ELSE Append(Digits(n \div 10), DigitChar(n % 10))

\* fmt.Sprintf("%d", n)
FormatInt(n) == IF n < 0 THEN <<"-">> \o Digits(0 - n) ELSE Digits(n)

\* int(f) for the float64 n/d: truncation toward zero
TruncFloat(q) == IF q[1] < 0 THEN 0 - ((0 - q[1]) \div q[2]) ELSE q[1] \div q[2]

\* ------------------------------------------------------------- decoders
\* encoding/json compares an object key with the field tags exactly and,
\* when none is equal, under simple case folding: the ASCII letters fold
\* onto each other, the long s onto s and the Kelvin sign onto k.
FoldFrom == UpperAlphabet \o <<"U+017F", "U+212A">>
FoldTo == LowerAlphabet \o <<"s", "k">>
FoldChar(c) == Translate(c, FoldFrom, FoldTo)
FoldName(s) == [k \in 1..Len(s) |-> FoldChar(s[k])]

\* The struct field (named by its tag) that an object key addresses; <<>>
\* when the key addresses none and the member is skipped.
FieldOf(key, tags) ==
    IF key \in tags THEN key
    ELSE IF \E t \in tags : FoldName(t) = FoldName(key)
         THEN CHOOSE t \in tags : FoldName(t) = FoldName(key)
         ELSE <<>>

\* json.Unmarshal into a Go string holding old: a JSON string is copied,
\* null leaves the value, anything else is an UnmarshalTypeError (the value
\* is left and decoding goes on; the error is returned at the end).
DecString(old, j) ==
    CASE j.t = "str" -> [ok |-> TRUE, v |-> j.v]
      [] j.t = "null" -> [ok |-> TRUE, v |-> old]
      [] OTHER -> [ok |-> FALSE, v |-> old]

\* json.Unmarshal into float64
DecFloat(old, j) ==
    CASE j.t = "num" -> [ok |-> TRUE, v |-> j.v]
      [] j.t = "null" -> [ok |-> TRUE, v |-> old]
      [] OTHER -> [ok |-> FALSE, v |-> old]

\* json.Unmarshal(output, &connectorsList), connectorsList a nil []string
UnmarshalConnectors(j) ==
    CASE j.t = "arr" ->
           [ok |-> \A k \in 1..Len(j.v) : DecString(<<>>, j.v[k]).ok,
            v |-> [k \in 1..Len(j.v) |-> DecString(<<>>, j.v[k]).v]]
      [] j.t = "null" -> [ok |-> TRUE, v |-> <<>>]
      [] OTHER -> [ok |-> FALSE, v |-> <<>>]

ZeroConnector == [State |-> <<>>, WorkerId |-> <<>>]
ZeroTask == [State |-> <<>>, Id |-> <<0, 1>>, WorkerId |-> <<>>]
ZeroStatus == [Name |-> <<>>, Connector |-> ZeroConnector, Tasks |-> <<>>]

\* F applied to the value of e, which is worked out once.
With(e, F(_)) == CHOOSE r \in {F(x) : x \in {e}} : TRUE

\* One member m of an object decoded into the connector struct cur.v:
\* the field its key addresses is decoded from its value; a member that
\* addresses no field is skipped.
ConnectorMember(cur, m) ==
    LET f == FieldOf(m[1], {kState, kWorkerId})
        s == DecString(cur.v.State, m[2])
        w == DecString(cur.v.WorkerId, m[2])
    IN CASE f = kState -> [ok |-> cur.ok /\ s.ok, v |-> [cur.v EXCEPT !.State = s.v]]
         [] f = kWorkerId -> [ok |-> cur.ok /\ w.ok, v |-> [cur.v EXCEPT !.WorkerId = w.v]]
         [] OTHER -> cur

\* The members of an object are decoded one after the other, in text
\* order: a later member overwrites what an earlier one set.
RECURSIVE DecConnectorMembers(_, _)
DecConnectorMembers(cur, ms) ==
    IF ms = <<>> THEN cur
    ELSE DecConnectorMembers(With(cur, LAMBDA c : ConnectorMember(c, Head(ms))), Tail(ms))

\* type connector struct
DecConnector(old, j) ==
    CASE j.t = "obj" -> DecConnectorMembers([ok |-> TRUE, v |-> old], j.v)
      [] j.t = "null" -> [ok |-> TRUE, v |-> old]
      [] OTHER -> [ok |-> FALSE, v |-> old]

TaskMember(cur, m) ==
    LET f == FieldOf(m[1], {kState, kId, kWorkerId})
        s == DecString(cur.v.State, m[2])
        n == DecFloat(cur.v.Id, m[2])
        w == DecString(cur.v.WorkerId, m[2])
    IN CASE f = kState -> [ok |-> cur.ok /\ s.ok, v |-> [cur.v EXCEPT !.State = s.v]]
         [] f = kId -> [ok |-> cur.ok /\ n.ok, v |-> [cur.v EXCEPT !.Id = n.v]]
         [] f = kWorkerId -> [ok |-> cur.ok /\ w.ok, v |-> [cur.v EXCEPT !.WorkerId = w.v]]
         [] OTHER -> cur

RECURSIVE DecTaskMembers(_, _)
DecTaskMembers(cur, ms) ==
    IF ms = <<>> THEN cur
    ELSE DecTaskMembers(With(cur, LAMBDA c : TaskMember(c, Head(ms))), Tail(ms))

\* type task struct
DecTask(old, j) ==
    CASE j.t = "obj" -> DecTaskMembers([ok |-> TRUE, v |-> old], j.v)
      [] j.t = "null" -> [ok |-> TRUE, v |-> old]
      [] OTHER -> [ok |-> FALSE, v |-> old]

\* []task holding old, whose backing array holds the elements back (old and
\* what lies past its length): the k-th element of a JSON array is decoded into the k-th element of the backing array, or
\* into a zero task past what the backing array holds; the slice then has
\* the array's length, and the backing array keeps the elements past it.
\* An empty array and a JSON null leave a slice with no backing array; any
\* other value is a type error and leaves the slice as it is.
DecTasks(old, back, j) ==
    LET into(k) == IF k <= Len(back) THEN back[k] ELSE ZeroTask
        elems == [k \in 1..Len(j.v) |-> DecTask(into(k), j.v[k])]
    IN CASE j.t = "arr" ->
              With(elems, LAMBDA es :
                  [ok |-> \A k \in 1..Len(es) : es[k].ok,
                   v |-> [k \in 1..Len(es) |-> es[k].v],
                   back |-> [k \in 1..(IF Len(es) = 0 THEN 0
                                       ELSE IF Len(es) > Len(back) THEN Len(es)
                                       ELSE Len(back)) |->
                               IF k <= Len(es) THEN es[k].v ELSE back[k]]])
         [] j.t = "null" -> [ok |-> TRUE, v |-> <<>>, back |-> <<>>]
         [] OTHER -> [ok |-> FALSE, v |-> old, back |-> back]

\* One member m of an object decoded into the status struct cur.v, whose
\* Tasks slice has the backing array cur.back.
StatusMember(cur, m) ==
    LET f == FieldOf(m[1], {kName, kConnector, kTasks})
        n == DecString(cur.v.Name, m[2])
    IN CASE f = kName -> [cur EXCEPT !.ok = cur.ok /\ n.ok, !.v.Name = n.v]
         [] f = kConnector ->
              With(DecConnector(cur.v.Connector, m[2]),
                   LAMBDA c : [cur EXCEPT !.ok = cur.ok /\ c.ok, !.v.Connector = c.v])
         [] f = kTasks ->
              With(DecTasks(cur.v.Tasks, cur.back, m[2]),
                   LAMBDA t : [ok |-> cur.ok /\ t.ok,
                               v |-> [cur.v EXCEPT !.Tasks = t.v],
                               back |-> t.back])
         [] OTHER -> cur

RECURSIVE DecStatusMembers(_, _)
DecStatusMembers(cur, ms) ==
    IF ms = <<>> THEN cur
    ELSE DecStatusMembers(With(cur, LAMBDA c : StatusMember(c, Head(ms))), Tail(ms))

\* var connectorStatus status; json.Unmarshal(connectorStatusOutput,
\* &connectorStatus): a JSON object is accepted whatever keys it has; a field
\* no member addresses keeps its zero value.
UnmarshalStatus(j) ==
    CASE j.t = "obj" ->
           With(DecStatusMembers([ok |-> TRUE, v |-> ZeroStatus, back |-> <<>>], j.v),
                LAMBDA r : [ok |-> r.ok, v |-> r.v])
      [] j.t = "null" -> [ok |-> TRUE, v |-> ZeroStatus]
      [] OTHER -> [ok |-> FALSE, v |-> ZeroStatus]

\* ------------------------------------------------------------ the samples
\* What the registry reads from a metric handed over on the channel.
Sample(name, labels, value) == [name |-> name, labels |-> labels, value |-> value]

\* prometheus.BuildFQName(nameSpace, subsystem, name)
UpName == "kafka_connect_up"
CountName == "kafka_connect_connectors_count"
RunningName == "kafka_connect_connector_state_running"
TasksName == "kafka_connect_connector_tasks_state"

sRunning == <<"r", "u", "n", "n", "i", "n", "g">>
sUnassigned == <<"u", "n", "a", "s", "s", "i", "g", "n", "e", "d">>
sPaused == <<"p", "a", "u", "s", "e", "d">>

\* (variant: the state is compared as it came, without strings.ToLower)
IsRunningExact(state) == IF state = sRunning THEN 1 ELSE 0

\* var isRunning float64 = 0; if strings.ToLower(State) == "running" { isRunning = 1 }
IsRunning(state) == IF ToLower(state) = sRunning THEN 1 ELSE 0

\* (variant: the codes of "unassigned" and "paused" are exchanged)
TaskStateCodeSwapped(state) ==
    CASE ToLower(state) = sRunning -> 1
      [] ToLower(state) = sUnassigned -> 3
      [] ToLower(state) = sPaused -> 2
      [] OTHER -> 0

\* the switch over strings.ToLower(connectorTask.State)
TaskStateCode(state) ==
    CASE ToLower(state) = sRunning -> 1
      [] ToLower(state) = sUnassigned -> 2
      [] ToLower(state) = sPaused -> 3
      [] OTHER -> 0

\* prometheus.MustNewConstMetric(isConnectorRunning, ...)
ConnectorSample(st) ==
    Sample(RunningName,
           <<st.Name, ToLower(st.Connector.State), st.Connector.WorkerId>>,
           IsRunning(st.Connector.State))

\* prometheus.MustNewConstMetric(areConnectorTasksRunning, ...)
TaskSample(st, tk) ==
    Sample(TasksName,
           <<st.Name, ToLower(tk.State), tk.WorkerId, FormatInt(TruncFloat(tk.Id))>>,
           TaskStateCode(tk.State))

\* Lines 131-160 for one decoded status: the connector's sample, then one
\* sample per task in payload order.
StatusSamples(st) ==
    <<ConnectorSample(st)>> \o [k \in 1..Len(st.Tasks) |-> TaskSample(st, st.Tasks[k])]

\* A channel element: either a reference to one of the Exporter's gauges
\* (ch <- e.up sends the gauge itself, whose value is read by the receiver)
\* or a constant metric.
GaugeRef(g) == [gauge |-> g, m |-> Sample(g, <<>>, 0)]
ConstMetric(m) == [gauge |-> "", m |-> m]

\* ------------------------------------------------- the upstream's answers
ErrResp == [kind |-> "err", code |-> 0, readOk |-> FALSE, body |-> JBad, closeOk |-> TRUE]
NoResp == [kind |-> "none", code |-> 0, readOk |-> FALSE, body |-> JBad, closeOk |-> TRUE]
Resp(code, readOk, body, closeOk) ==
    [kind |-> "resp", code |-> code, readOk |-> readOk, body |-> body, closeOk |-> closeOk]

NameAt(k) == IF k % 2 = 1 THEN <<"a">> ELSE <<"b">>
OtherName == <<"z">>
W1 == <<"w", "1">>
W2 == <<"w", "2">>

\* a task object with its three members
JTask(state, id, worker) ==
    JObj(<< <<kState, JStr(state)>>, <<kId, id>>, <<kWorkerId, JStr(worker)>> >>)

TaskAt(k) ==
    CASE k % 4 = 1 -> JTask(<<"r", "u", "n", "n", "i", "n", "g">>, JNum(0, 1), W1)
      [] k % 4 = 2 -> JTask(<<"P", "A", "U", "S", "E", "D">>, JNum(3, 2), W2)
      [] k % 4 = 3 -> JTask(<<"F", "a", "i", "l", "e", "d">>, JNum(12, 1), W1)
      [] OTHER -> JTask(<<"U", "n", "a", "s", "s", "i", "g", "n", "e", "d">>,
                        JNum(0 - 5, 2), W2)

ConnStates == {<<"R", "U", "N", "N", "I", "N", "G">>, <<"P", "a", "u", "s", "e", "d">>}

JNames(n) == JArr([k \in 1..n |-> JStr(NameAt(k))])
JErrObj ==
    JObj(<< <<<<"e", "r", "r", "o", "r", "_", "c", "o", "d", "e">>, JNum(404, 1)>>,
            <<<<"m", "e", "s", "s", "a", "g", "e">>, JStr(<<"n", "o">>)>> >>)
JConnector(state, worker) ==
    JObj(<< <<kState, JStr(state)>>, <<kWorkerId, JStr(worker)>> >>)
JStatus(name, state, n) ==
    JObj(<< <<kName, JStr(name)>>,
            <<kConnector, JConnector(state, W1)>>,
            <<kTasks, JArr([k \in 1..n |-> TaskAt(k)])>> >>)
JStatusBadTasks(name) ==
    JObj(<< <<kName, JStr(name)>>,
            <<kConnector, JConnector(sRunning, W1)>>,
            <<kTasks, JStr(<<"x">>)>> >>)

\* A status whose keys are spelt in other cases than the tags (one with the
\* Kelvin sign for k), with a key no field has and the name given twice.
JStatusFolded(name) ==
    JObj(<< <<<<"N", "a", "m", "e">>, JStr(OtherName)>>,
            <<<<"C", "O", "N", "N", "E", "C", "T", "O", "R">>,
              JObj(<< <<<<"S", "t", "a", "t", "e">>, JStr(<<"R", "u", "n", "n", "i", "n", "g">>)>>,
                      <<<<"w", "o", "r", "U+212A", "e", "r", "_", "I", "D">>, JStr(W2)>> >>)>>,
            <<<<"n", "a", "m", "e", "s">>, JStr(OtherName)>>,
            <<<<"T", "a", "s", "k", "s">>,
              JArr(<< JObj(<< <<<<"I", "d">>, JNum(7, 1)>>,
                              <<<<"S", "T", "A", "T", "E">>, JStr(sPaused)>> >>) >>)>>,
            <<<<"N", "A", "M", "E">>, JStr(name)>> >>)

\* A status that gives its tasks and then takes them back with a null.
JStatusNoTasks(name) ==
    JObj(<< <<kName, JStr(name)>>,
            <<kConnector, JConnector(sRunning, W1)>>,
            <<kTasks, JArr(<<TaskAt(1), TaskAt(2)>>)>>,
            <<kTasks, JNull>> >>)

ListingBodies ==
    {JBad, JNull, JErrObj, JArr(<<JStr(NameAt(1)), JNum(1, 1)>>)}
      \cup {JNames(n) : n \in 0..MaxConnectors}

ListingOutcomes ==
    {ErrResp}
      \cup {Resp(200, FALSE, JBad, c) : c \in BOOLEAN}
      \cup {Resp(200, TRUE, b, c) : b \in ListingBodies, c \in BOOLEAN}
      \cup {Resp(500, TRUE, b, TRUE) : b \in {JErrObj, JNames(1)}}

StatusBodies(c) ==
    {JBad, JErrObj, JStatusBadTasks(c), JStatus(OtherName, sRunning, 1), JStatusFolded(c),
     JStatusNoTasks(c)}
      \cup {JStatus(c, s, n) : s \in ConnStates, n \in 0..MaxTasks}

StatusOutcomes(c) ==
    {ErrResp, Resp(200, FALSE, JBad, TRUE), Resp(404, TRUE, JErrObj, TRUE),
     Resp(200, TRUE, JStatus(c, sRunning, 1), FALSE)}
      \cup {Resp(200, TRUE, b, TRUE) : b \in StatusBodies(c)}

\* The answers drawn when invocations overlap: the product of two
\* invocations is explored over a smaller choice of upstream answers.
ListingOutcomesOverlap ==
    {ErrResp, Resp(200, TRUE, JBad, TRUE), Resp(200, TRUE, JBad, FALSE)}
      \cup {Resp(200, TRUE, JNames(n), TRUE) : n \in 0..MaxConnectors}

StatusOutcomesOverlap(c) ==
    {ErrResp, Resp(200, TRUE, JStatus(c, sRunning, 1), TRUE)}

\* The listing answers while the upstream keeps serving one status body.
ListingOutcomesFixed ==
    {ErrResp, Resp(200, TRUE, JNames(1), TRUE), Resp(200, TRUE, JNames(1), FALSE)}

\* ------------------------------------------------------------------ state
VARIABLES
    up,                \* e.up: value of the gauge, shared by all invocations
    connectorsCount,   \* e.connectorsCount: value of the gauge, shared
    serial,            \* the registry runs one scrape at a time (fixed)
    pc,                \* position of each invocation inside Collect
    response,          \* the listing response held by the deferred close
    connectorsList,    \* the decoded listing
    idx,               \* position of the range loop over connectorsList
    connectorStatusResponse,  \* the status response of the current connector
    connectorStatus,   \* the decoded status of the current connector
    taskIdx,           \* position of the range loop over connectorStatus.Tasks
    open,              \* response bodies not yet closed: 0 the listing, k the k-th status
    issued,            \* requests issued in this cycle: 0 the listing, k the k-th status
    recv,              \* answers received in this cycle, in order
    ch,                \* the channel handed to Collect
    out,               \* samples the registry has read from the channel
    prev,              \* answers and samples of the cycle the upstream repeats
    payload,           \* the status body the upstream keeps serving (JNull: any)
    mainPc,            \* position of main
    scrapeURI,         \* the -scrape-uri flag
    showVersion        \* the -version flag

vars == <<up, connectorsCount, serial, pc, response, connectorsList, idx,
          connectorStatusResponse, connectorStatus, taskIdx, open, issued,
          recv, ch, out, prev, payload, mainPc, scrapeURI, showVersion>>

gauges == <<up, connectorsCount>>
locals == <<response, connectorsList, idx, connectorStatusResponse,
            connectorStatus, taskIdx>>

envVars == <<payload>>
mainVars == <<mainPc, scrapeURI, showVersion>>

NoPrev == [recv |-> <<>>, out |-> {}]

Range(s) == {s[k] : k \in 1..Len(s)}

\* NewExporter: both gauges are created with value 0; no scrape has started.
InitCommon ==
    /\ up = 0
    /\ connectorsCount = 0
    /\ pc = [i \in Procs |-> "idle"]
    /\ response = [i \in Procs |-> NoResp]
    /\ connectorsList = [i \in Procs |-> <<>>]
    /\ idx = [i \in Procs |-> 0]
    /\ connectorStatusResponse = [i \in Procs |-> NoResp]
    /\ connectorStatus = [i \in Procs |-> ZeroStatus]
    /\ taskIdx = [i \in Procs |-> 0]
    /\ open = [i \in Procs |-> {}]
    /\ issued = [i \in Procs |-> <<>>]
    /\ recv = [i \in Procs |-> <<>>]
    /\ ch = [i \in Procs |-> <<>>]
    /\ out = [i \in Procs |-> <<>>]
    /\ prev = NoPrev

\* the upstream answers each request as it likes
AnyPayload == payload = JNull

\* the default of the -scrape-uri flag, host and port shortened
DefaultURI == <<"h", "t", "t", "p", ":", "/", "/", "h">>

\* main has registered the Exporter and is serving
Serving == mainPc = "serving" /\ scrapeURI = DefaultURI /\ showVersion = FALSE

Init == InitCommon /\ serial = TRUE /\ AnyPayload /\ Serving
InitOverlap == InitCommon /\ serial = FALSE /\ AnyPayload /\ Serving

\* (variant: the value is added to what the gauge holds)
GaugeAdd(old, v) == old + v

\* prometheus.Gauge.Set: the value is overwritten
GaugeSet(old, v) == v

\* (variant: after a failure the body is read again, until it reads)
ContinueReread(k) == [pc |-> "readStatus", idx |-> k]

\* (variant: a failing connector is asked again)
ContinueRetry(k) == [pc |-> "loop", idx |-> k]

\* (variant: a failing connector ends the loop)
ContinueAbort(k) == [pc |-> "return", idx |-> k]

\* the `continue` of the range loop: on to the next listed connector
Continue(k) == [pc |-> "loop", idx |-> k + 1]

\* (variant: a failure branch returns without sending)
FailSendNothing == <<>>

\* what the three failure branches of the listing send: ch <- e.up
FailSend == <<GaugeRef(UpName)>>

\* The answers the upstream may give to the next request of invocation i.
\* While the upstream repeats the previous cycle, it is that cycle's answer.
Answers(i, fresh) ==
    IF prev.recv # <<>> /\ Len(recv[i]) < Len(prev.recv)
    THEN {prev.recv[Len(recv[i]) + 1]}
    ELSE fresh

\* The answers to the listing request and to the status request for c.
ListingChoice ==
    IF payload # JNull THEN ListingOutcomesFixed
    ELSE IF serial THEN ListingOutcomes ELSE ListingOutcomesOverlap

StatusChoice(c) ==
    IF payload # JNull THEN {Resp(200, TRUE, payload, TRUE)}
    ELSE IF serial THEN StatusOutcomes(c) ELSE StatusOutcomesOverlap(c)

CanSend(i, n) == Len(ch[i]) + n <= ChanCap

\* ------------------------------------------------------------ Collect
\* client := http.Client{...}; e.up.Set(0)
Start(i) ==
    /\ mainPc = "serving"
    /\ pc[i] = "idle"
    /\ serial => \A j \in Procs : pc[j] = "idle"
    /\ up' = GaugeSet(up, 0)
    /\ pc' = [pc EXCEPT ![i] = "getList"]
    /\ UNCHANGED <<connectorsCount, serial, locals, open, issued, recv, ch, out, prev, envVars, mainVars>>

\* client.Get(e.URI + "/connectors"): the request goes out
IssueList(i) ==
    /\ pc[i] = "getList"
    /\ issued' = [issued EXCEPT ![i] = Append(@, 0)]
    /\ pc' = [pc EXCEPT ![i] = "awaitList"]
    /\ UNCHANGED <<gauges, serial, locals, open, recv, ch, out, prev, envVars, mainVars>>

\* client.Get returns: an error, or a response whose close is deferred
RecvList(i) ==
    /\ pc[i] = "awaitList"
    /\ \E r \in Answers(i, ListingChoice) :
         /\ recv' = [recv EXCEPT ![i] = Append(@, r)]
         /\ IF r.kind = "err"
            THEN /\ pc' = [pc EXCEPT ![i] = "failSend"]
                 /\ UNCHANGED <<response, open>>
            ELSE /\ response' = [response EXCEPT ![i] = r]
                 /\ open' = [open EXCEPT ![i] = @ \cup {0}]
                 /\ pc' = [pc EXCEPT ![i] = "readList"]
    /\ UNCHANGED <<gauges, serial, connectorsList, idx, connectorStatusResponse,
                   connectorStatus, taskIdx, issued, ch, out, prev, envVars, mainVars>>

\* ioutil.ReadAll(response.Body); json.Unmarshal(output, &connectorsList)
ReadList(i) ==
    /\ pc[i] = "readList"
    /\ IF response[i].readOk /\ UnmarshalConnectors(response[i].body).ok
       THEN /\ connectorsList' = [connectorsList EXCEPT ![i] =
                                    UnmarshalConnectors(response[i].body).v]
            /\ pc' = [pc EXCEPT ![i] = "setUp"]
       ELSE /\ pc' = [pc EXCEPT ![i] = "failSend"]
            /\ UNCHANGED connectorsList
    /\ UNCHANGED <<gauges, serial, response, idx, connectorStatusResponse,
                   connectorStatus, taskIdx, open, issued, recv, ch, out, prev, envVars, mainVars>>

\* ch <- e.up; return  (the listing failed)
FailSendUp(i) ==
    /\ pc[i] = "failSend"
    /\ CanSend(i, Len(FailSend))
    /\ ch' = [ch EXCEPT ![i] = @ \o FailSend]
    /\ pc' = [pc EXCEPT ![i] = "return"]
    /\ UNCHANGED <<gauges, serial, locals, open, issued, recv, out, prev, envVars, mainVars>>

\* e.up.Set(1)
SetUp(i) ==
    /\ pc[i] = "setUp"
    /\ up' = GaugeSet(up, 1)
    /\ pc' = [pc EXCEPT ![i] = "setCount"]
    /\ UNCHANGED <<connectorsCount, serial, locals, open, issued, recv, ch, out, prev, envVars, mainVars>>

\* e.connectorsCount.Set(float64(len(connectorsList)))
SetCount(i) ==
    /\ pc[i] = "setCount"
    /\ connectorsCount' = GaugeSet(connectorsCount, Len(connectorsList[i]))
    /\ pc' = [pc EXCEPT ![i] = "sendUp"]
    /\ UNCHANGED <<up, serial, locals, open, issued, recv, ch, out, prev, envVars, mainVars>>

\* ch <- e.up
SendUp(i) ==
    /\ pc[i] = "sendUp"
    /\ CanSend(i, 1)
    /\ ch' = [ch EXCEPT ![i] = Append(@, GaugeRef(UpName))]
    /\ pc' = [pc EXCEPT ![i] = "sendCount"]
    /\ UNCHANGED <<gauges, serial, locals, open, issued, recv, out, prev, envVars, mainVars>>

\* ch <- e.connectorsCount; the range loop starts
SendCount(i) ==
    /\ pc[i] = "sendCount"
    /\ CanSend(i, 1)
    /\ ch' = [ch EXCEPT ![i] = Append(@, GaugeRef(CountName))]
    /\ idx' = [idx EXCEPT ![i] = 1]
    /\ pc' = [pc EXCEPT ![i] = "loop"]
    /\ UNCHANGED <<gauges, serial, response, connectorsList, connectorStatusResponse,
                   connectorStatus, taskIdx, open, issued, recv, out, prev, envVars, mainVars>>

\* (variant: the request for the connector after this one goes out with it)
LoopEager(i) ==
    /\ pc[i] = "loop"
    /\ IF idx[i] <= Len(connectorsList[i])
       THEN /\ issued' = [issued EXCEPT ![i] =
                            IF idx[i] < Len(connectorsList[i])
                            THEN Append(Append(@, idx[i]), idx[i] + 1)
                            ELSE Append(@, idx[i])]
            /\ pc' = [pc EXCEPT ![i] = "awaitStatus"]
       ELSE /\ pc' = [pc EXCEPT ![i] = "return"]
            /\ UNCHANGED issued
    /\ UNCHANGED <<gauges, serial, locals, open, recv, ch, out, prev, envVars, mainVars>>

\* for _, connector := range connectorsList { client.Get(.../status)
Loop(i) ==
    /\ pc[i] = "loop"
    /\ IF idx[i] <= Len(connectorsList[i])
       THEN /\ issued' = [issued EXCEPT ![i] = Append(@, idx[i])]
            /\ pc' = [pc EXCEPT ![i] = "awaitStatus"]
       ELSE /\ pc' = [pc EXCEPT ![i] = "return"]
            /\ UNCHANGED issued
    /\ UNCHANGED <<gauges, serial, locals, open, recv, ch, out, prev, envVars, mainVars>>

\* client.Get returns for the status request: an error skips the connector
RecvStatus(i) ==
    /\ pc[i] = "awaitStatus"
    /\ \E r \in Answers(i, StatusChoice(connectorsList[i][idx[i]])) :
         /\ recv' = [recv EXCEPT ![i] = Append(@, r)]
         /\ IF r.kind = "err"
            THEN /\ pc' = [pc EXCEPT ![i] = Continue(idx[i]).pc]
                 /\ idx' = [idx EXCEPT ![i] = Continue(idx[i]).idx]
                 /\ UNCHANGED <<connectorStatusResponse, open>>
            ELSE /\ connectorStatusResponse' = [connectorStatusResponse EXCEPT ![i] = r]
                 /\ open' = [open EXCEPT ![i] = @ \cup {idx[i]}]
                 /\ pc' = [pc EXCEPT ![i] = "readStatus"]
                 /\ UNCHANGED idx
    /\ UNCHANGED <<gauges, serial, response, connectorsList, connectorStatus,
                   taskIdx, issued, ch, out, prev, envVars, mainVars>>

\* ioutil.ReadAll(connectorStatusResponse.Body); json.Unmarshal(..., &connectorStatus)
\* Either failure skips the connector with `continue`: the body is not closed.
ReadStatus(i) ==
    /\ pc[i] = "readStatus"
    /\ IF /\ connectorStatusResponse[i].readOk
          /\ UnmarshalStatus(connectorStatusResponse[i].body).ok
       THEN /\ connectorStatus' = [connectorStatus EXCEPT ![i] =
                                     UnmarshalStatus(connectorStatusResponse[i].body).v]
            /\ pc' = [pc EXCEPT ![i] = "sendRunning"]
            /\ UNCHANGED idx
       ELSE /\ pc' = [pc EXCEPT ![i] = Continue(idx[i]).pc]
            /\ idx' = [idx EXCEPT ![i] = Continue(idx[i]).idx]
            /\ UNCHANGED connectorStatus
    /\ UNCHANGED <<gauges, serial, response, connectorsList, connectorStatusResponse,
                   taskIdx, open, issued, recv, ch, out, prev, envVars, mainVars>>

\* ch <- prometheus.MustNewConstMetric(isConnectorRunning, ...)
SendRunning(i) ==
    /\ pc[i] = "sendRunning"
    /\ CanSend(i, 1)
    /\ ch' = [ch EXCEPT ![i] = Append(@, ConstMetric(ConnectorSample(connectorStatus[i])))]
    /\ taskIdx' = [taskIdx EXCEPT ![i] = 1]
    /\ pc' = [pc EXCEPT ![i] = "tasks"]
    /\ UNCHANGED <<gauges, serial, response, connectorsList, idx, connectorStatusResponse,
                   connectorStatus, open, issued, recv, out, prev, envVars, mainVars>>

\* (variant: the tasks are walked from the last to the first)
RangeTasksReversed(tasks, k) == tasks[Len(tasks) + 1 - k]

\* the element the k-th iteration of `range connectorStatus.Tasks` yields
RangeTasks(tasks, k) == tasks[k]

\* for _, connectorTask := range connectorStatus.Tasks { ch <- ... }
SendTask(i) ==
    /\ pc[i] = "tasks"
    /\ taskIdx[i] <= Len(connectorStatus[i].Tasks)
    /\ CanSend(i, 1)
    /\ ch' = [ch EXCEPT ![i] = Append(@, ConstMetric(
                 TaskSample(connectorStatus[i],
                            RangeTasks(connectorStatus[i].Tasks, taskIdx[i]))))]
    /\ taskIdx' = [taskIdx EXCEPT ![i] = @ + 1]
    /\ UNCHANGED <<gauges, serial, pc, response, connectorsList, idx,
                   connectorStatusResponse, connectorStatus, open, issued, recv, out, prev, envVars, mainVars>>

\* connectorStatusResponse.Body.Close(): an error is logged, nothing else
CloseStatus(i) ==
    /\ pc[i] = "tasks"
    /\ taskIdx[i] > Len(connectorStatus[i].Tasks)
    /\ open' = [open EXCEPT ![i] = @ \ {idx[i]}]
    /\ idx' = [idx EXCEPT ![i] = @ + 1]
    /\ pc' = [pc EXCEPT ![i] = "loop"]
    /\ UNCHANGED <<gauges, serial, response, connectorsList, connectorStatusResponse,
                   connectorStatus, taskIdx, issued, recv, ch, out, prev, envVars, mainVars>>

\* return: the deferred function, if one was registered, closes the listing
\* body; when Close reports an error it goes on to send e.up.
Return(i) ==
    /\ pc[i] = "return"
    /\ IF response[i].kind = "resp"
       THEN /\ open' = [open EXCEPT ![i] = @ \ {0}]
            /\ pc' = [pc EXCEPT ![i] = IF response[i].closeOk THEN "done" ELSE "deferSend"]
       ELSE /\ pc' = [pc EXCEPT ![i] = "done"]
            /\ UNCHANGED open
    /\ UNCHANGED <<gauges, serial, locals, issued, recv, ch, out, prev, envVars, mainVars>>

\* ch <- e.up inside the deferred function
DeferSendUp(i) ==
    /\ pc[i] = "deferSend"
    /\ CanSend(i, 1)
    /\ ch' = [ch EXCEPT ![i] = Append(@, GaugeRef(UpName))]
    /\ pc' = [pc EXCEPT ![i] = "done"]
    /\ UNCHANGED <<gauges, serial, locals, open, issued, recv, out, prev, envVars, mainVars>>

\* ------------------------------------------------------------ the registry
\* The receiving end of the channel: the registry takes the next metric and
\* reads its value; a gauge's value is the one it holds at that moment.
Read(item) ==
    CASE item.gauge = UpName -> Sample(UpName, <<>>, up)
      [] item.gauge = CountName -> Sample(CountName, <<>>, connectorsCount)
      [] OTHER -> item.m

Receive(i) ==
    /\ Len(ch[i]) > 0
    /\ out' = [out EXCEPT ![i] = Append(@, Read(Head(ch[i])))]
    /\ ch' = [ch EXCEPT ![i] = Tail(@)]
    /\ UNCHANGED <<gauges, serial, pc, locals, open, issued, recv, prev, envVars, mainVars>>

\* The scrape is answered: Collect has returned and the channel is drained.
\* The invocation's frame is gone; the upstream may go on to repeat the
\* answers it gave in this cycle.
Finish(i) ==
    /\ pc[i] = "done"
    /\ ch[i] = <<>>
    /\ prev' \in (IF serial /\ payload = JNull
                  THEN {NoPrev, [recv |-> recv[i], out |-> Range(out[i])]}
                  ELSE {NoPrev})
    /\ pc' = [pc EXCEPT ![i] = "idle"]
    /\ response' = [response EXCEPT ![i] = NoResp]
    /\ connectorsList' = [connectorsList EXCEPT ![i] = <<>>]
    /\ idx' = [idx EXCEPT ![i] = 0]
    /\ connectorStatusResponse' = [connectorStatusResponse EXCEPT ![i] = NoResp]
    /\ connectorStatus' = [connectorStatus EXCEPT ![i] = ZeroStatus]
    /\ taskIdx' = [taskIdx EXCEPT ![i] = 0]
    /\ open' = [open EXCEPT ![i] = {}]
    /\ issued' = [issued EXCEPT ![i] = <<>>]
    /\ recv' = [recv EXCEPT ![i] = <<>>]
    /\ out' = [out EXCEPT ![i] = <<>>]
    /\ UNCHANGED <<gauges, serial, ch, envVars, mainVars>>

Step(i) ==
    \/ Start(i) \/ IssueList(i) \/ RecvList(i) \/ ReadList(i) \/ FailSendUp(i)
    \/ SetUp(i) \/ SetCount(i) \/ SendUp(i) \/ SendCount(i)
    \/ Loop(i) \/ RecvStatus(i) \/ ReadStatus(i) \/ SendRunning(i) \/ SendTask(i)
    \/ CloseStatus(i) \/ Return(i) \/ DeferSendUp(i) \/ Receive(i) \/ Finish(i)

Next == \E i \in Procs : Step(i)

\* ------------------------------------ the mapping over spellings of states
\* State words as an upstream may spell them: a word with some of its
\* letters in upper case.
UpperChar(c) == Translate(c, LowerAlphabet, UpperAlphabet)

WithUpper(w, mask) == [k \in 1..Len(w) |-> IF k \in mask THEN UpperChar(w[k]) ELSE w[k]]

BaseWords ==
    {sRunning, sUnassigned, sPaused,
     <<"f", "a", "i", "l", "e", "d">>, <<"f", "o", "o">>, <<>>,
     <<"r", "u", "n">>, <<"r", "u", "n", "n", "i", "n", "g", "s">>,
     <<"p", "a", "u", "s", "e">>, <<"a", "s", "s", "i", "g", "n", "e", "d">>}

Spellings(w) ==
    {WithUpper(w, mask) : mask \in {m \in SUBSET (1..Len(w)) : Cardinality(m) <= MaxUpper}}
      \cup {WithUpper(w, 1..Len(w))}

\* spellings with characters outside ASCII, and with capitals that occur in
\* none of the three words
WordsBeyond ==
    {<<"R", "U", "N", "N", "U+0130", "N", "G">>,
     <<"u", "n", "a", "s", "s", "U+0130", "g", "n", "e", "d">>,
     <<"p", "a", "u", "U+017F", "e", "d">>,
     <<"P", "A", "U", "U+017F", "E", "D">>,
     <<"r", "U+00C9", "n", "n", "i", "n", "g">>,
     <<"U+212A", "U+00C9">>,
     <<"D", "E", "S", "T", "R", "O", "Y", "E", "D">>,
     <<"U", "N", "K", "N", "O", "W", "N">>,
     <<"B", "U", "S", "Y">>}

StateWords == UNION {Spellings(w) : w \in BaseWords} \cup WordsBeyond

\* a status body whose connector and tasks are all in state w
JStatusIn(w, n) ==
    JObj(<< <<kName, JStr(NameAt(1))>>,
            <<kConnector, JConnector(w, W1)>>,
            <<kTasks, JArr([k \in 1..n |-> JTask(w, JNum(k - 1, 1), W2)])>> >>)

\* The upstream serves the same status body to every status request.
InitMap ==
    /\ InitCommon /\ serial = TRUE /\ Serving
    /\ payload \in {JStatusIn(w, n) : w \in StateWords, n \in 0..MaxTasks}

NextMap == Step(1)

\* Scrapes, one at a time, of an upstream with one connector whose status
\* runs over the spellings of the state words
SpecMap == InitMap /\ [][NextMap]_vars

\* ------------------------------------------------------------------ main
\* ASCII letters and digits
Letters == Range(LowerAlphabet) \cup Range(UpperAlphabet)
DecimalDigits == {"0", "1", "2", "3", "4", "5", "6", "7", "8", "9"}
HexDigits == DecimalDigits \cup {"a", "b", "c", "d", "e", "f", "A", "B", "C", "D", "E", "F"}
SchemeMarks == DecimalDigits \cup {"+", "-", "."}

\* the bytes below 0x20 and 0x7f; those TLA+ has no escape for are written
\* by their code
ControlChars ==
    {"0x00", "0x01", "0x02", "0x03", "0x04", "0x05", "0x06", "0x07", "0x08",
     "\t", "\n", "0x0b", "\f", "\r", "0x0e", "0x0f",
     "0x10", "0x11", "0x12", "0x13", "0x14", "0x15", "0x16", "0x17", "0x18",
     "0x19", "0x1a", "0x1b", "0x1c", "0x1d", "0x1e", "0x1f", "0x7f"}

\* strings.Index and strings.LastIndex for one character; 0 when absent
IndexOf(s, c) ==
    IF \E k \in 1..Len(s) : s[k] = c
    THEN CHOOSE k \in 1..Len(s) : s[k] = c /\ \A j \in 1..(k - 1) : s[j] # c
    ELSE 0
LastIndexOf(s, c) ==
    IF \E k \in 1..Len(s) : s[k] = c
    THEN CHOOSE k \in 1..Len(s) : s[k] = c /\ \A j \in (k + 1)..Len(s) : s[j] # c
    ELSE 0

\* what precedes and what follows position k of s
Before(s, k) == SubSeq(s, 1, k - 1)
After(s, k) == SubSeq(s, k + 1, Len(s))

\* strings.Cut, first result: s up to the first c, all of s when c is absent
CutBefore(s, c) == IF IndexOf(s, c) = 0 THEN s ELSE Before(s, IndexOf(s, c))
\* strings.Cut, second result
CutAfter(s, c) == IF IndexOf(s, c) = 0 THEN <<>> ELSE After(s, IndexOf(s, c))

HasPrefix(s, p) == Len(p) <= Len(s) /\ SubSeq(s, 1, Len(p)) = p

\* net/url getScheme: the letters, digits, "+", "-", "." before the first
\* ":"; no scheme when another character comes first or a mark leads;
\* an error when ":" leads.
RECURSIVE GetScheme(_, _)
GetScheme(raw, k) ==
    IF k > Len(raw) THEN [ok |-> TRUE, scheme |-> <<>>, rest |-> raw]
    ELSE IF raw[k] \in Letters THEN GetScheme(raw, k + 1)
    ELSE IF raw[k] \in SchemeMarks
         THEN IF k = 1 THEN [ok |-> TRUE, scheme |-> <<>>, rest |-> raw]
              ELSE GetScheme(raw, k + 1)
    ELSE IF raw[k] = ":"
         THEN IF k = 1 THEN [ok |-> FALSE, scheme |-> <<>>, rest |-> <<>>]
              ELSE [ok |-> TRUE, scheme |-> SubSeq(raw, 1, k - 1),
                    rest |-> SubSeq(raw, k + 1, Len(raw))]
    ELSE [ok |-> TRUE, scheme |-> <<>>, rest |-> raw]

\* the first path segment: what precedes the first "/"
FirstSegment(rest) == CutBefore(rest, "/")

\* net/url shouldEscape in host mode, for the ASCII characters a host can
\* hold once "#", "?", "/" and "@" are cut off: these make the host invalid.
\* ("%" is an escape and is handled apart; characters outside ASCII pass;
\* the backslash and the backquote are written by their codes.)
InvalidHostChars == {" ", "/", "?", "@", "#", "0x5c", "^", "0x60", "{", "|", "}"}

\* net/url unhex
HexValue(c) ==
    CHOOSE n \in 0..15 :
        c \in {<<"0", "1", "2", "3", "4", "5", "6", "7", "8", "9",
                 "a", "b", "c", "d", "e", "f">>[n + 1],
               <<"0", "1", "2", "3", "4", "5", "6", "7", "8", "9",
                 "A", "B", "C", "D", "E", "F">>[n + 1]}

\* "%" at position k of s is followed by two hex digits
IsEscape(s, k) ==
    k + 2 <= Len(s) /\ s[k + 1] \in HexDigits /\ s[k + 2] \in HexDigits

\* net/url unescape, the error only: every "%" is followed by two hex
\* digits; in a host an escape other than "%25" must denote a byte of
\* 0x80 or more, and no character may be one a host cannot hold.
ValidEscapes(s, host) ==
    \A k \in 1..Len(s) :
        /\ s[k] = "%" =>
              /\ IsEscape(s, k)
              /\ host => \/ SubSeq(s, k, k + 2) = <<"%", "2", "5">>
                         \/ HexValue(s[k + 1]) >= 8
        /\ host => s[k] \notin InvalidHostChars

\* net/url validOptionalPort: empty, or ":" and digits only
ValidOptionalPort(port) ==
    port = <<>> \/ (Head(port) = ":" /\ \A k \in 2..Len(port) : port[k] \in DecimalDigits)

\* the bytes shouldEscape lets stand in a host: letters, digits and
\* ! $ & ' ( ) * + , ; = : [ ] < > " - _ . ~
HostBytes ==
    (48..57) \cup (65..90) \cup (97..122)
      \cup {33, 36, 38, 39, 40, 41, 42, 43, 44, 59, 61, 58, 91, 93, 60, 62, 34,
            45, 95, 46, 126}

\* unescape of the zone of a bracketed host: an escape must be "%25" or
\* denote a space or a byte a host can hold
ValidZone(s) ==
    \A k \in 1..Len(s) :
        /\ s[k] = "%" =>
              /\ IsEscape(s, k)
              /\ \/ SubSeq(s, k, k + 2) = <<"%", "2", "5">>
                 \/ 16 * HexValue(s[k + 1]) + HexValue(s[k + 2]) \in HostBytes \cup {32}
        /\ s[k] \notin InvalidHostChars

\* the position of the first "%25" in s; 0 when absent
ZoneIndex(s) ==
    IF \E k \in 1..(Len(s) - 2) : SubSeq(s, k, k + 2) = <<"%", "2", "5">>
    THEN CHOOSE k \in 1..(Len(s) - 2) :
             /\ SubSeq(s, k, k + 2) = <<"%", "2", "5">>
             /\ \A j \in 1..(k - 1) : SubSeq(s, j, j + 2) # <<"%", "2", "5">>
    ELSE 0

\* net/url parseHost, the error only
ValidHost(host) ==
    IF HasPrefix(host, <<"[">>)
    THEN LET i == LastIndexOf(host, "]")
             zone == ZoneIndex(Before(host, i))
         IN /\ i # 0
            /\ ValidOptionalPort(After(host, i))
            /\ IF zone # 0
               THEN /\ ValidEscapes(Before(host, zone), TRUE)
                    /\ ValidZone(SubSeq(host, zone, i - 1))
                    /\ ValidEscapes(SubSeq(host, i, Len(host)), TRUE)
               ELSE ValidEscapes(host, TRUE)
    ELSE /\ LastIndexOf(host, ":") # 0
               => ValidOptionalPort(SubSeq(host, LastIndexOf(host, ":"), Len(host)))
         /\ ValidEscapes(host, TRUE)

\* net/url validUserinfo
UserinfoMarks ==
    {"-", ".", "_", ":", "~", "!", "$", "&", "'", "(", ")", "*", "+", ",", ";", "=", "%", "@"}
ValidUserinfo(s) ==
    \A k \in 1..Len(s) : s[k] \in Letters \cup DecimalDigits \cup UserinfoMarks

\* net/url parseAuthority, the error only: the host follows the last "@"
ValidAuthority(authority) ==
    LET i == LastIndexOf(authority, "@")
    IN /\ ValidHost(After(authority, i))
       /\ i # 0 => /\ ValidUserinfo(Before(authority, i))
                   /\ ValidEscapes(Before(authority, i), FALSE)

\* net/url parse, on what precedes the fragment: the error and the Scheme,
\* which it lower-cases.
ParseNoFragment(u) ==
    LET g == GetScheme(u, 1)
        scheme == ToLower(g.scheme)
        rest == CutBefore(g.rest, "?")
        withAuthority == (scheme # <<>> \/ ~HasPrefix(rest, <<"/", "/", "/">>))
                           /\ HasPrefix(rest, <<"/", "/">>)
        authority == CutBefore(SubSeq(rest, 3, Len(rest)), "/")
        path == IF withAuthority
                THEN SubSeq(rest, 3 + Len(authority), Len(rest))
                ELSE rest
        failed == [ok |-> FALSE, Scheme |-> <<>>]
    IN IF \E k \in 1..Len(u) : u[k] \in ControlChars THEN failed
       ELSE IF u = <<"*">> THEN [ok |-> TRUE, Scheme |-> <<>>]
       ELSE IF ~g.ok THEN failed
       ELSE IF ~HasPrefix(rest, <<"/">>) /\ scheme # <<>>
            THEN [ok |-> TRUE, Scheme |-> scheme]
       ELSE IF ~HasPrefix(rest, <<"/">>) /\ IndexOf(FirstSegment(rest), ":") # 0
            THEN failed
       ELSE IF withAuthority /\ ~ValidAuthority(authority) THEN failed
       ELSE IF ~ValidEscapes(path, FALSE) THEN failed
       ELSE [ok |-> TRUE, Scheme |-> scheme]

\* url.Parse(*scrapeURI), as far as main uses it: the error and the Scheme.
\* The fragment is cut off at the first "#" and unescaped after the rest
\* has parsed.
ParseURI(raw) ==
    LET parsed == ParseNoFragment(CutBefore(raw, "#"))
    IN IF parsed.ok /\ ~ValidEscapes(CutAfter(raw, "#"), FALSE)
       THEN [ok |-> FALSE, Scheme |-> <<>>]
       ELSE parsed

\* (variant: one more scheme is let through)
SupportedSchemaWide ==
    {<<"h", "t", "t", "p">>, <<"h", "t", "t", "p", "s">>, <<"f", "t", "p">>}

\* var supportedSchema
supportedSchema == {<<"h", "t", "t", "p">>, <<"h", "t", "t", "p", "s">>}

\* values of the -scrape-uri flag
ScrapeURIs ==
    {DefaultURI,
     <<"H", "T", "T", "P", "S", ":", "/", "/", "u", "@", "h", ":", "8", "0", "/", "p",
       "?", "q", ":", "#", "f">>,
     <<"f", "t", "p", ":", "/", "/", "h">>,
     <<"w", "s", ":", "/", "/", "h">>,
     <<"h", "t", "t", "p", "s">>,
     <<"h", ":", "1">>,
     <<":", "/", "/", "h">>,
     <<"1", ":", "h">>,
     <<"h", "?", "a", ":", "b">>,
     <<"/", "p">>,
     <<"*">>,
     <<"h", "\n">>,
     <<"h", "t", "t", "p", ":", "/", "/", "h", "\t">>,
     <<"h", "t", "t", "p", ":", "/", "/", "h", ":", "p">>,
     <<"h", "t", "t", "p", ":", "/", "/", "[", ":", ":", "1">>,
     <<"h", "t", "t", "p", ":", "/", "/", "h", " ", "h">>,
     <<"h", "t", "t", "p", ":", "/", "/", "h", "/", "%", "z", "z">>,
     <<"h", "t", "t", "p", ":", "/", "/", "h", "#", "%", "1">>,
     <<"h", "t", "t", "p", ":", "/", "/", "u", "^", "@", "h">>,
     <<>>}

InitMain ==
    /\ InitCommon /\ serial = TRUE /\ AnyPayload
    /\ mainPc = "start"
    /\ scrapeURI \in ScrapeURIs
    /\ showVersion \in BOOLEAN

\* flag.Parse(); -version prints and exits 2; a URI that does not parse or
\* whose scheme is not supported exits 1.
MainStart ==
    /\ mainPc = "start"
    /\ mainPc' = IF showVersion THEN "exit2"
                 ELSE IF ~ParseURI(scrapeURI).ok THEN "exit1"
                 ELSE IF ParseURI(scrapeURI).Scheme \notin supportedSchema THEN "exit1"
                 ELSE "register"
    /\ UNCHANGED <<up, connectorsCount, serial, pc, locals, open, issued, recv,
                   ch, out, prev, envVars, scrapeURI, showVersion>>

\* prometheus.MustRegister(NewExporter(*scrapeURI)); the handlers are set
MainRegister ==
    /\ mainPc = "register"
    /\ up' = 0
    /\ connectorsCount' = 0
    /\ mainPc' = "listen"
    /\ UNCHANGED <<serial, pc, locals, open, issued, recv,
                   ch, out, prev, envVars, scrapeURI, showVersion>>

\* log.Fatal(http.ListenAndServe(...)): the listener serves, or it fails
\* and the process exits 1.
MainListen ==
    /\ mainPc = "listen"
    /\ mainPc' \in {"serving", "exit1"}
    /\ UNCHANGED <<up, connectorsCount, serial, pc, locals, open, issued, recv,
                   ch, out, prev, envVars, scrapeURI, showVersion>>

NextMain ==
    \/ MainStart
    \/ MainRegister
    \/ MainListen
    \/ Next

\* The process from its start
SpecMain == InitMain /\ [][NextMain]_vars

\* Scrapes one at a time
Spec == Init /\ [][Next]_vars

\* The steps of the goroutine that runs Collect for invocation i.
Run(i) ==
    \/ IssueList(i) \/ RecvList(i) \/ ReadList(i) \/ FailSendUp(i)
    \/ SetUp(i) \/ SetCount(i) \/ SendUp(i) \/ SendCount(i)
    \/ Loop(i) \/ RecvStatus(i) \/ ReadStatus(i) \/ SendRunning(i) \/ SendTask(i)
    \/ CloseStatus(i) \/ Return(i) \/ DeferSendUp(i)

\* The registry's goroutine receiving from invocation i's channel.
Drain(i) == Receive(i)

\* Scrapes one at a time; every request returns or times out (the client's
\* Timeout), the goroutine running Collect is scheduled, and the registry
\* keeps receiving.
\* Scrapes that come one at a time occupy one frame after the other: the
\* scrapes of this specification all run as invocation 1.
NextLive == Step(1)

SpecLive ==
    /\ Init
    /\ [][NextLive]_vars
    /\ WF_vars(Run(1)) /\ WF_vars(Drain(1))

\* Scrapes that may overlap
SpecOverlap == InitOverlap /\ [][Next]_vars

\* ===================================================================
\* Properties
\* ===================================================================
\* Collect has returned and the registry has read every metric it sent.
Ended(i) == pc[i] = "done" /\ ch[i] = <<>>

\* The verdict of lines 76-103 on a listing answer.
ListingFailed(r) == r.kind = "err" \/ ~r.readOk \/ ~UnmarshalConnectors(r.body).ok
\* The verdict of lines 113-129 on a status answer.
StatusFailed(r) == r.kind = "err" \/ ~r.readOk \/ ~UnmarshalStatus(r.body).ok

Listed(i) == UnmarshalConnectors(recv[i][1].body).v
GotListing(i) == Len(recv[i]) >= 1 /\ ~ListingFailed(recv[i][1])

Up(v) == Sample(UpName, <<>>, v)
Count(v) == Sample(CountName, <<>>, v)
NumOf(seq, name) == Cardinality({k \in 1..Len(seq) : seq[k].name = name})
PerConnector(seq) == SelectSeq(seq, LAMBDA m : m.name \in {RunningName, TasksName})

\* The samples of one status answer taken alone.
OwnSamples(r) ==
    IF StatusFailed(r) THEN <<>>
    ELSE LET st == UnmarshalStatus(r.body).v
         IN <<ConnectorSample(st)>> \o [k \in 1..Len(st.Tasks) |-> TaskSample(st, st.Tasks[k])]

RECURSIVE Flatten(_)
Flatten(ss) == IF ss = <<>> THEN <<>> ELSE Head(ss) \o Flatten(Tail(ss))

RECURSIVE SumSeq(_)
SumSeq(ns) == IF ns = <<>> THEN 0 ELSE Head(ns) + SumSeq(Tail(ns))

\* C1: when the listing call fails, the cycle produces exactly one sample, up = 0.
C1_ListingFailureOneSample ==
    \A i \in Procs :
        (Ended(i) /\ ListingFailed(recv[i][1])) => out[i] = <<Up(0)>>

\* C2: a listing of N names whose N status calls all succeed yields exactly
\* 2 + N + T samples: up = 1, connectors_count = N, one sample per connector
\* and one per task.
AllSucceeded(i) ==
    /\ GotListing(i)
    /\ Len(recv[i]) = 1 + Len(Listed(i))
    /\ \A k \in 2..Len(recv[i]) : ~StatusFailed(recv[i][k])
TotalTasks(i) ==
    SumSeq([k \in 1..Len(Listed(i)) |-> Len(UnmarshalStatus(recv[i][k + 1].body).v.Tasks)])
C2_SampleCount ==
    \A i \in Procs :
        (Ended(i) /\ AllSucceeded(i)) =>
            /\ Len(out[i]) = 2 + Len(Listed(i)) + TotalTasks(i)
            /\ NumOf(out[i], UpName) = 1 /\ Up(1) \in Range(out[i])
            /\ NumOf(out[i], CountName) = 1 /\ Count(Len(Listed(i))) \in Range(out[i])
            /\ NumOf(out[i], RunningName) = Len(Listed(i))
            /\ NumOf(out[i], TasksName) = TotalTasks(i)

\* C3: failing status calls are isolated: every listed connector is still
\* requested, a failing one contributes no sample, the others contribute
\* exactly their own samples, and the output has up = 1, connectors_count = N
\* and no up = 0.
C3_FailureIsolation ==
    \A i \in Procs :
        (Ended(i) /\ GotListing(i)) =>
            /\ Len(recv[i]) = 1 + Len(Listed(i))
            /\ PerConnector(out[i]) =
                 Flatten([k \in 1..Len(Listed(i)) |-> OwnSamples(recv[i][k + 1])])
            /\ Up(1) \in Range(out[i])
            /\ Count(Len(Listed(i))) \in Range(out[i])
            /\ Up(0) \notin Range(out[i])

\* a cycle over two connectors, the first failing, the second reported
C3_Witness ==
    \E i \in Procs :
        /\ Ended(i) /\ GotListing(i) /\ Len(Listed(i)) = 2 /\ Len(recv[i]) = 3
        /\ StatusFailed(recv[i][2]) /\ ~StatusFailed(recv[i][3])
        /\ Len(PerConnector(out[i])) >= 2

\* C4: what an invocation reports depends only on the answers it received
\* itself: up = 1 and connectors_count = N after its own successful listing,
\* up = 0 after its own failed listing.
C4_OwnAnswersOnly ==
    \A i \in Procs :
        Ended(i) =>
            \A k \in 1..Len(out[i]) :
                /\ out[i][k].name = UpName =>
                     out[i][k].value = (IF ListingFailed(recv[i][1]) THEN 0 ELSE 1)
                /\ out[i][k].name = CountName =>
                     out[i][k].value = Len(Listed(i))

\* C5: a status body is closed before the next status request goes out, and
\* no body is open when the cycle ends.
C5_BodiesClosed ==
    \A i \in Procs :
        /\ pc[i] = "awaitStatus" => open[i] \subseteq {0}
        /\ pc[i] = "done" => open[i] = {}

\* C6: a status body that deviates from the shape
\* {name, connector:{state, worker_id}, tasks:[{state, id, worker_id}]}
\* is a decode failure: no sample is made from it.
IsStr(j) == j.t = "str"
\* the members of an object whose key is the tag, in whatever case
Named(j, tag) ==
    IF j.t = "obj" THEN {k \in 1..Len(j.v) : FoldName(j.v[k][1]) = tag} ELSE {}
\* each of the keys occurs once in the object, spelt as the tag
HasKeys(j, keys) ==
    /\ j.t = "obj"
    /\ \A key \in keys : \E k \in 1..Len(j.v) : Named(j, key) = {k} /\ j.v[k][1] = key
At(j, key) == j.v[CHOOSE k \in 1..Len(j.v) : j.v[k][1] = key][2]
HasShape(j) ==
    /\ HasKeys(j, {kName, kConnector, kTasks})
    /\ IsStr(At(j, kName))
    /\ HasKeys(At(j, kConnector), {kState, kWorkerId})
    /\ IsStr(At(At(j, kConnector), kState)) /\ IsStr(At(At(j, kConnector), kWorkerId))
    /\ At(j, kTasks).t = "arr"
    /\ \A k \in 1..Len(At(j, kTasks).v) :
          /\ HasKeys(At(j, kTasks).v[k], {kState, kId, kWorkerId})
          /\ IsStr(At(At(j, kTasks).v[k], kState))
          /\ At(At(j, kTasks).v[k], kId).t = "num"
          /\ IsStr(At(At(j, kTasks).v[k], kWorkerId))
C6_ShapeDeviationSkipped ==
    \A i \in Procs :
        pc[i] \in {"sendRunning", "tasks"} => HasShape(connectorStatusResponse[i].body)

\* C7: a listing answered with a non-2xx status is a failed listing: no
\* status request is issued and the cycle's only sample is up = 0.
C7_Non2xxListingFails ==
    \A i \in Procs :
        (Len(recv[i]) >= 1 /\ recv[i][1].kind = "resp" /\ recv[i][1].code \notin 200..299) =>
            /\ pc[i] \notin {"setUp", "setCount", "sendUp", "sendCount", "loop"}
            /\ issued[i] = <<0>>
            /\ Ended(i) => out[i] = <<Up(0)>>

\* C8: up is sent exactly once per cycle and connectors_count at most once.
C8_UpSentOnce ==
    \A i \in Procs :
        Ended(i) => NumOf(out[i], UpName) = 1 /\ NumOf(out[i], CountName) <= 1

\* C9: whatever the upstream answers, Collect has sent up at least once by
\* the time it returns.
Sent(i) == out[i] \o [k \in 1..Len(ch[i]) |-> ch[i][k].m]
C9_UpAlwaysSent ==
    \A i \in Procs : pc[i] = "done" => NumOf(Sent(i), UpName) >= 1

\* the listing was malformed, or it was fine and every status call failed
C9_Witness ==
    /\ \E i \in Procs :
          /\ pc[i] = "done" /\ GotListing(i) /\ Len(Listed(i)) = MaxConnectors
          /\ \A k \in 2..Len(recv[i]) : StatusFailed(recv[i][k])
          /\ Len(recv[i]) = 1 + MaxConnectors

\* C10: a cycle that receives the same answers as the cycle before it
\* reports the same set of samples.
C10_Idempotent ==
    \A i \in Procs :
        (Ended(i) /\ prev.recv # <<>> /\ recv[i] = prev.recv) =>
            Range(out[i]) = prev.out

\* a repeated cycle that reported connectors and tasks
C10_Witness ==
    \E i \in Procs :
        /\ Ended(i) /\ prev.recv # <<>> /\ recv[i] = prev.recv
        /\ Len(PerConnector(out[i])) >= 2
        /\ Count(1) \in Range(out[i])

\* The capitals of a lower-case letter: its ASCII capital and the capitals
\* outside ASCII whose lower-case letter it is.
CapitalsOf(c) ==
    {UpperChar(c)} \cup {UpperBeyond[k] : k \in {j \in 1..Len(UpperBeyond) : LowerBeyond[j] = c}}

\* Equality ignoring case, of s with the lower-case word w: each character
\* of s is the character of w or one of its capitals.
EqualIgnoringCase(s, w) ==
    /\ Len(s) = Len(w)
    /\ \A k \in 1..Len(w) : s[k] = w[k] \/ s[k] \in CapitalsOf(w[k])

\* The value a payload gives under a tag: that of the last member whose key
\* is the tag in whatever case and whose value is not null.
Under(j, tag) ==
    LET given == {k \in Named(j, tag) : j.v[k][2].t # "null"}
    IN IF given = {} THEN JNull
       ELSE j.v[CHOOSE k \in given : \A m \in given : m <= k][2]

\* The tasks a payload gives: the array of the last member whose key is
\* "tasks" in whatever case, none when that member is null or there is none
\* (payloads with one array under "tasks" at most).
TasksGiven(j) ==
    LET given == Named(j, kTasks)
        last == j.v[CHOOSE k \in given : \A m \in given : m <= k][2]
    IN IF given = {} THEN <<>>
       ELSE IF last.t = "arr" THEN last.v ELSE <<>>

\* The string under a tag, empty when absent or null.
JText(j, tag) == IF Under(j, tag).t = "str" THEN Under(j, tag).v ELSE <<>>

\* While invocation i is in the task loop, the last thing it sent is the
\* connector's sample (before the first task) or the sample of the task
\* just walked; both were made from the status body it holds.
LastSent(i) == Sent(i)[Len(Sent(i))]
CurrentBody(i) == connectorStatusResponse[i].body
CurrentName(i) == connectorsList[i][idx[i]]
\* the task just walked, as the payload gives it
CurrentTask(i) == TasksGiven(CurrentBody(i))[taskIdx[i] - 1]

Decoded(i) == {k \in 2..Len(recv[i]) : ~StatusFailed(recv[i][k])}

\* C11: the task state code is 1 for "running", 2 for "unassigned", 3 for
\* "paused", each ignoring case, and 0 for every other string; every task of
\* a decoded connector gets its sample.
C11_TaskStateCode ==
    \A i \in Procs :
        /\ (pc[i] = "tasks" /\ taskIdx[i] > 1) =>
              LET w == JText(CurrentTask(i), kState)
              IN /\ LastSent(i).name = TasksName
                 /\ LastSent(i).value =
                      (CASE EqualIgnoringCase(w, sRunning) -> 1
                         [] EqualIgnoringCase(w, sUnassigned) -> 2
                         [] EqualIgnoringCase(w, sPaused) -> 3
                         [] OTHER -> 0)
        /\ (Ended(i) /\ GotListing(i)) =>
              NumOf(out[i], TasksName) =
                SumSeq([k \in 1..(Len(recv[i]) - 1) |->
                          IF StatusFailed(recv[i][k + 1]) THEN 0
                          ELSE Len(TasksGiven(recv[i][k + 1].body))])

\* a task spelt "PAUSED" got code 3
C11_Witness ==
    \E i \in Procs :
        /\ pc[i] = "tasks" /\ taskIdx[i] = 3
        /\ JText(CurrentTask(i), kState) = <<"P", "A", "U", "S", "E", "D">>
        /\ LastSent(i).value = 3

\* C12: the connector's sample has value 1 when its state is "running"
\* ignoring case and 0 for any other string, and a decoded connector has
\* exactly one such sample.
C12_ConnectorRunning ==
    \A i \in Procs :
        /\ (pc[i] = "tasks" /\ taskIdx[i] = 1) =>
              /\ LastSent(i).name = RunningName
              /\ LastSent(i).value =
                   (IF EqualIgnoringCase(JText(Under(CurrentBody(i), kConnector), kState),
                                         sRunning)
                    THEN 1 ELSE 0)
        /\ (Ended(i) /\ GotListing(i)) =>
              NumOf(out[i], RunningName) = Cardinality(Decoded(i))

\* a connector spelt "RuNning" got value 1
C12_Witness ==
    \E i \in Procs :
        /\ pc[i] = "tasks" /\ taskIdx[i] = 1
        /\ JText(Under(CurrentBody(i), kConnector), kState)
             = <<"R", "u", "N", "n", "i", "n", "g">>
        /\ LastSent(i).value = 1

\* The URI begins with the scheme word w, in any case, and ":".
HasScheme(uri, w) ==
    /\ Len(uri) > Len(w)
    /\ EqualIgnoringCase(SubSeq(uri, 1, Len(w)), w)
    /\ uri[Len(w) + 1] = ":"
HttpOrHttps(uri) ==
    HasScheme(uri, <<"h", "t", "t", "p">>) \/ HasScheme(uri, <<"h", "t", "t", "p", "s">>)

\* URIs that are no URI though their scheme is http: a control character,
\* a port that is no number, an unclosed bracket, a space in the host, an
\* escape that is none (in the path, in the fragment), a bad user name.
Unparsable ==
    {<<"h", "t", "t", "p", ":", "/", "/", "h", "\t">>,
     <<"h", "t", "t", "p", ":", "/", "/", "h", ":", "p">>,
     <<"h", "t", "t", "p", ":", "/", "/", "[", ":", ":", "1">>,
     <<"h", "t", "t", "p", ":", "/", "/", "h", " ", "h">>,
     <<"h", "t", "t", "p", ":", "/", "/", "h", "/", "%", "z", "z">>,
     <<"h", "t", "t", "p", ":", "/", "/", "h", "#", "%", "1">>,
     <<"h", "t", "t", "p", ":", "/", "/", "u", "^", "@", "h">>}

\* C13: with a scrape URI whose scheme is not http or https, or that does
\* not parse, main exits nonzero before the Exporter is registered and
\* before anything is served: no cycle ever runs.
C13_BadSchemeIsFatal ==
    (~HttpOrHttps(scrapeURI) \/ scrapeURI \in Unparsable) =>
        /\ mainPc \in {"start", "exit1", "exit2"}
        /\ \A i \in Procs : pc[i] = "idle"

\* main has exited 1 on an ftp URI
C13_Witness ==
    /\ mainPc = "exit1"
    /\ ~showVersion
    /\ scrapeURI = <<"f", "t", "p", ":", "/", "/", "h">>

IsPrefix(p, q) == Len(p) <= Len(q) /\ p = SubSeq(q, 1, Len(p))

\* The samples due for the status answers received so far, in listing order.
DueSoFar(i) == Flatten([k \in 1..(Len(recv[i]) - 1) |-> OwnSamples(recv[i][k + 1])])

\* C14: after a successful listing, up = 1 and connectors_count are sent
\* first, before any status request and whatever the connectors answer;
\* then come, connector by connector in listing order, the connector's
\* sample followed by its task samples in payload order.
C14_EmissionOrder ==
    \A i \in Procs :
        /\ ( \/ Len(issued[i]) >= 2
             \/ GotListing(i) /\ pc[i] \in {"loop", "return", "deferSend", "done"} )
           => /\ Len(Sent(i)) >= 2
              /\ Sent(i)[1].name = UpName
              /\ Sent(i)[2].name = CountName
              /\ Len(out[i]) >= 1 => out[i][1] = Up(1)
              /\ Len(out[i]) >= 2 => out[i][2] = Count(Len(Listed(i)))
        /\ GotListing(i)
           => /\ IsPrefix(PerConnector(Sent(i)), DueSoFar(i))
              /\ pc[i] \in {"loop", "return", "deferSend", "done"}
                   => PerConnector(Sent(i)) = DueSoFar(i)
              /\ Len(PerConnector(Sent(i))) > 0
                   => SubSeq(Sent(i), 3, 2 + Len(PerConnector(Sent(i))))
                        = PerConnector(Sent(i))

\* two connectors reported, the second with two tasks
C14_Witness ==
    \E i \in Procs :
        /\ Ended(i) /\ GotListing(i) /\ Len(Listed(i)) = 2 /\ Len(recv[i]) = 3
        /\ ~StatusFailed(recv[i][2])
        /\ ~StatusFailed(recv[i][3])
        /\ Len(UnmarshalStatus(recv[i][3].body).v.Tasks) = 2
        /\ out[i][Len(out[i])].name = TasksName

\* C15: within one invocation at most one request is outstanding, and a
\* status request goes out only when every connector before it has been
\* handled: skipped, or all its samples sent.
C15_Sequential ==
    \A i \in Procs :
        /\ Len(issued[i]) - Len(recv[i]) \in {0, 1}
        /\ pc[i] = "awaitStatus"
           => /\ Len(issued[i]) - Len(recv[i]) = 1
              /\ issued[i][Len(issued[i])] = Len(recv[i])
              /\ GotListing(i)
              /\ PerConnector(Sent(i)) = DueSoFar(i)

\* the second status request is out, after the first connector's samples
C15_Witness ==
    \E i \in Procs :
        /\ pc[i] = "awaitStatus" /\ idx[i] = 2
        /\ Len(DueSoFar(i)) >= 2
        /\ PerConnector(Sent(i)) = DueSoFar(i)

\* C16: a cycle issues one listing request; none after a failed listing;
\* after a listing of N names one status request per entry, in order, and
\* none twice.
C16_NoRetries ==
    \A i \in Procs :
        /\ \A k \in 1..Len(issued[i]) : issued[i][k] = k - 1
        /\ pc[i] \notin {"idle", "getList"} => Len(issued[i]) >= 1
        /\ (Len(recv[i]) >= 1 /\ ListingFailed(recv[i][1])) => issued[i] = <<0>>
        /\ GotListing(i) => Len(issued[i]) <= 1 + Len(Listed(i))
        /\ (GotListing(i) /\ pc[i] \in {"return", "deferSend", "done"})
              => Len(issued[i]) = 1 + Len(Listed(i))

\* a cycle over two connectors whose first status call failed has ended
C16_Witness ==
    \E i \in Procs :
        /\ pc[i] = "done" /\ GotListing(i) /\ Len(Listed(i)) = 2
        /\ Len(recv[i]) = 3 /\ StatusFailed(recv[i][2])
        /\ issued[i] = <<0, 1, 2>>

\* C17: every invocation of Collect that has started returns.
C17_Terminates == (pc[1] = "getList") ~> (pc[1] = "done")

\* a cycle over the longest listing, every connector reported, has returned
C17_Witness ==
    /\ pc[1] = "done" /\ GotListing(1) /\ Len(Listed(1)) = MaxConnectors
    /\ Len(recv[1]) = 1 + MaxConnectors
    /\ \A k \in 2..Len(recv[1]) : ~StatusFailed(recv[1][k])

UpperLetters == Range(UpperAlphabet) \cup Range(UpperBeyond)

\* l is s with its upper-case letters replaced by their lower-case ones
IsLowerOf(l, s) ==
    /\ Len(l) = Len(s)
    /\ \A k \in 1..Len(s) :
          /\ l[k] \notin UpperLetters
          /\ l[k] = s[k] \/ s[k] \in CapitalsOf(l[k])

DigitValue(c) == CHOOSE d \in 0..9 : DigitChar(d) = c

RECURSIVE ParseDigits(_)
ParseDigits(ds) ==
    IF Len(ds) = 1 THEN DigitValue(ds[1])
    ELSE 10 * ParseDigits(SubSeq(ds, 1, Len(ds) - 1)) + DigitValue(ds[Len(ds)])

\* the integer a decimal string denotes
ParseDec(ds) == IF Head(ds) = "-" THEN 0 - ParseDigits(Tail(ds)) ELSE ParseDigits(ds)

\* n is the integer part of the number q[1]/q[2]
IsIntegerPart(n, q) ==
    IF q[1] >= 0 THEN n >= 0 /\ n * q[2] <= q[1] /\ q[1] < (n + 1) * q[2]
    ELSE n <= 0 /\ n * q[2] >= q[1] /\ q[1] > (n - 1) * q[2]

\* the number under the id of a task, 0 when absent or null
TaskId(tk) == IF Under(tk, kId).t = "num" THEN Under(tk, kId).v ELSE <<0, 1>>

LabelsAfterName(i) ==
    LET m == LastSent(i)
        b == CurrentBody(i)
    IN IF taskIdx[i] = 1
       THEN /\ m.name = RunningName
            /\ Len(m.labels) = 3
            /\ IsLowerOf(m.labels[2], JText(Under(b, kConnector), kState))
            /\ m.labels[3] = JText(Under(b, kConnector), kWorkerId)
       ELSE LET tk == CurrentTask(i)
            IN /\ m.name = TasksName
               /\ Len(m.labels) = 4
               /\ IsLowerOf(m.labels[2], JText(tk, kState))
               /\ m.labels[3] = JText(tk, kWorkerId)
               /\ IsIntegerPart(ParseDec(m.labels[4]), TaskId(tk))

WellShaped(i) == pc[i] = "tasks" /\ HasShape(CurrentBody(i))

\* C18 (as stated): each sample made while the listed connector c is
\* processed has c as its connector label, the lower-cased state, the
\* worker id and, for a task, its id as a decimal integer.
C18_LabelsOfListed ==
    \A i \in Procs :
        WellShaped(i) =>
            /\ LastSent(i).labels[1] = CurrentName(i)
            /\ LabelsAfterName(i)

\* C18 (amended): the connector label is the name field of the status
\* payload (its key in whatever case), empty when the payload has none; the
\* other labels are as stated.
C18_LabelsOfPayload ==
    \A i \in Procs :
        pc[i] = "tasks" =>
            /\ LastSent(i).labels[1] = JText(CurrentBody(i), kName)
            /\ LabelsAfterName(i)

\* the task with id 3/2, spelt "PAUSED", was sent with id "1" and state "paused"
C18_Witness ==
    \E i \in Procs :
        /\ WellShaped(i) /\ taskIdx[i] = 3
        /\ LastSent(i).labels = <<CurrentName(i), sPaused, W2, <<"1">> >>

====
